---------------------------- MODULE Spec2Model ----------------------------
(***************************************************************************)
(* BlockReGenerator (src/scripts/main.js): blocks armed with a             *)
(* regeneration setting are replaced by a placeholder when broken and      *)
(* restored by a per-tick scan of the world's dynamic properties.          *)
(*                                                                         *)
(* JavaScript values are modelled as follows.                              *)
(*   - a form string (genTime) is a sequence of one-character strings, so  *)
(*     that parseInt and toString/padStart/slice work on characters;       *)
(*   - a number is [t |-> "num", v |-> n]; NaN and null are the values     *)
(*     NaN and Null below (JSON.stringify turns NaN into null);            *)
(*   - a dynamic property is [kind |-> "undefined"] or                     *)
(*     [kind |-> "string", text |-> T], T modelling a JSON text:           *)
(*     [valid |-> FALSE] does not parse, [valid |-> TRUE, value |-> v]     *)
(*     parses to v;                                                        *)
(*   - a missing field of a parsed object holds UndefinedStr or            *)
(*     UndefinedLoc.                                                       *)
(***************************************************************************)
EXTENDS Integers, Sequences, FiniteSets, TLC

VARIABLES
    dynamicProperties,  \* world dynamic properties: key -> property value
    blocks,             \* the world: location -> block type id
    pending,            \* breaks the host has committed, break-after not yet delivered
    out,                \* what the last handler did: messages, placements, writes, cancel
    brokenTicks,        \* observer: scans that processed a record since its break
    lostWrite,          \* observer: keys whose write failed after the block was placed
    formShown,          \* the setting form is on the player's screen: form.show pending
    coordA, coordB,     \* identifier codec: two coordinates ...
    idA, idB            \* ... and the identifiers computed for them

vars == <<dynamicProperties, blocks, pending, out, brokenTicks, lostWrite,
          formShown, coordA, coordB, idA, idB>>
codecVars == <<coordA, coordB, idA, idB>>

-----------------------------------------------------------------------------
(* Bounds of the model *)

\* the largest genTime typed into the form: the inputs include the decimal
\* strings of 0 and MaxGenTime
MaxGenTime == 1

-----------------------------------------------------------------------------
(* CONSTANTS of main.js *)

PROPERTY_PREFIX == "block:"
SETTING_KEY == <<"blockReGeneratorSetting">>
COORDINATE_OFFSET == 30000000
COORDINATE_DIGITS == 5

GameMode_creative == "creative"
GameMode_survival == "survival"

-----------------------------------------------------------------------------
(* JavaScript strings and numbers *)

DigitChars == <<"0", "1", "2", "3", "4", "5", "6", "7", "8", "9">>

IsDigit(c) == \E d \in 1..10 : DigitChars[d] = c

DigitValue(c) == (CHOOSE d \in 1..10 : DigitChars[d] = c) - 1

RECURSIVE NatToString(_)
NatToString(n) ==
    IF n < 10 THEN <<DigitChars[n + 1]>>
    ELSE NatToString(n \div 10) \o <<DigitChars[(n % 10) + 1]>>

\* Number.prototype.toString for an integer
toString(n) == IF n < 0 THEN <<"-">> \o NatToString(-n) ELSE NatToString(n)

\* String.prototype.padStart(targetLength, padString) with a one-character pad
RECURSIVE padStart(_, _, _)
padStart(s, targetLength, padChar) ==
    IF Len(s) >= targetLength THEN s
    ELSE padStart(<<padChar>> \o s, targetLength, padChar)

\* String.prototype.slice(-n): the last n characters
sliceLast(s, n) ==
    IF Len(s) <= n THEN s ELSE SubSeq(s, Len(s) - n + 1, Len(s))

Num(n) == [t |-> "num", v |-> n]
NaN == [t |-> "NaN", v |-> 0]
Null == [t |-> "null", v |-> 0]

\* the value of the longest prefix of digits of s, read from position i on
RECURSIVE DigitPrefix(_, _, _)
DigitPrefix(s, i, acc) ==
    IF i <= Len(s) /\ IsDigit(s[i])
    THEN DigitPrefix(s, i + 1, acc * 10 + DigitValue(s[i]))
    ELSE acc

\* StrWhiteSpaceChar of parseInt: tab, vertical tab, form feed, space,
\* no-break space, zero width no-break space and the other space separators
\* (Zs), and the line terminators.  A character that a string of this
\* notation cannot hold is written as its JavaScript escape.
WhiteSpace ==
    {"\t", "\\u000b", "\f", " ", "\\u00a0", "\\ufeff",
     "\\u1680", "\\u2000", "\\u2001", "\\u2002", "\\u2003", "\\u2004",
     "\\u2005", "\\u2006", "\\u2007", "\\u2008", "\\u2009", "\\u200a",
     "\\u202f", "\\u205f", "\\u3000",
     "\n", "\r", "\\u2028", "\\u2029"}

RECURSIVE SkipSpace(_, _)
SkipSpace(s, i) ==
    IF i <= Len(s) /\ s[i] \in WhiteSpace THEN SkipSpace(s, i + 1) ELSE i

HexChars == <<"0", "1", "2", "3", "4", "5", "6", "7", "8", "9",
              "a", "b", "c", "d", "e", "f">>
UpperHexChars == <<"0", "1", "2", "3", "4", "5", "6", "7", "8", "9",
                   "A", "B", "C", "D", "E", "F">>

IsHexDigit(c) == \E d \in 1..16 : HexChars[d] = c \/ UpperHexChars[d] = c

HexValue(c) == (CHOOSE d \in 1..16 : HexChars[d] = c \/ UpperHexChars[d] = c) - 1

RECURSIVE HexPrefix(_, _, _)
HexPrefix(s, i, acc) ==
    IF i <= Len(s) /\ IsHexDigit(s[i])
    THEN HexPrefix(s, i + 1, acc * 16 + HexValue(s[i]))
    ELSE acc

\* parseInt(string) without a radix: leading white space, an optional sign,
\* then hexadecimal digits after 0x or 0X, else decimal digits; NaN when no
\* digit follows
parseInt(s) ==
    LET i == SkipSpace(s, 1)
        signed == i <= Len(s) /\ s[i] \in {"-", "+"}
        j == IF signed THEN i + 1 ELSE i
        hex == j + 1 <= Len(s) /\ s[j] = "0" /\ s[j + 1] \in {"x", "X"}
        magnitude ==
            IF hex
            THEN IF j + 2 <= Len(s) /\ IsHexDigit(s[j + 2])
                 THEN Num(HexPrefix(s, j + 2, 0)) ELSE NaN
            ELSE IF j <= Len(s) /\ IsDigit(s[j])
                 THEN Num(DigitPrefix(s, j, 0)) ELSE NaN
    IN  IF magnitude.t = "num" /\ signed /\ s[i] = "-"
        THEN Num(0 - magnitude.v)
        ELSE magnitude

\* ToNumber for the relational operators: null is 0, NaN compares false
LessEqZero(n) == (n.t = "num" /\ n.v <= 0) \/ n.t = "null"
GreaterZero(n) == n.t = "num" /\ n.v > 0

\* n-- : ToNumber(n) - 1
Decrement(n) ==
    IF n.t = "num" THEN Num(n.v - 1)
    ELSE IF n.t = "null" THEN Num(0 - 1)
    ELSE NaN

-----------------------------------------------------------------------------
(* getLocationId *)

\* one coordinate: toString().padStart(5, '0').slice(-5)
CoordinateField(coord) ==
    sliceLast(padStart(toString(coord), COORDINATE_DIGITS, "0"), COORDINATE_DIGITS)

getLocationId(x, y, z) ==
    LET positiveX == x + COORDINATE_OFFSET
        positiveY == y + COORDINATE_OFFSET
        positiveZ == z + COORDINATE_OFFSET
    IN  CoordinateField(positiveX) \o CoordinateField(positiveY)
            \o CoordinateField(positiveZ)

-----------------------------------------------------------------------------
(* The host world the handlers act on *)

Vec(x, y, z) == [x |-> x, y |-> y, z |-> z]

\* the cells of the model
Locations == {Vec(0, 0, 0), Vec(1, 0, 0)}

\* a cell 100000 blocks east of the first one, and the cells of the world
FarCell == Vec(100000, 0, 0)
WorldCells == Locations \cup {FarCell}

DimensionIds == {"minecraft:overworld"}

AIR == "minecraft:air"
STONE == "minecraft:stone"
BlockTypes == {AIR, STONE, "minecraft:diamond_ore", "minecraft:cobblestone"}

TheBlock(location) ==
    [location |-> location, dimension |-> [id |-> "minecraft:overworld"]]

UndefinedStr == "<undefined>"
UndefinedLoc == [undefined |-> TRUE]
JSNull == [null |-> TRUE]

\* truthiness of a string-valued field
TruthyStr(s) == s # UndefinedStr /\ s # ""

\* world.getDimension(id): throws for an unknown id
getDimensionThrows(dimensionId) == dimensionId \notin DimensionIds
getDimension(dimensionId) == [id |-> dimensionId]

-----------------------------------------------------------------------------
(* DynamicPropertyManager.  A handler's working state w carries the dynamic   *)
(* properties and the world it changes and the effects it has had so far.     *)

getBlockKey(locationId) == <<PROPERTY_PREFIX>> \o locationId

startsWithPrefix(dataId) == Len(dataId) >= 1 /\ dataId[1] = PROPERTY_PREFIX

BlockKeys == {getBlockKey(getLocationId(l.x, l.y, l.z)) : l \in Locations}
AllKeys == {SETTING_KEY} \cup BlockKeys

Undefined == [kind |-> "undefined"]

NanToNull(n) == IF n.t = "NaN" THEN Null ELSE n

\* JSON.stringify: a NaN number is written as null
JSON_stringify(value) ==
    [valid |-> TRUE,
     value |-> IF "time" \in DOMAIN value
               THEN [value EXCEPT !.time = NanToNull(@), !.genTime = NanToNull(@)]
               ELSE value]

\* DynamicPropertyManager.get: null for no value and for a value that does not
\* parse (JSON.parse throws and the catch returns null).  The host call
\* world.getDynamicProperty itself is taken not to throw.
get(props, key) ==
    LET value == props[key]
    IN  IF value.kind = "string"
        THEN IF value.text.valid THEN value.text.value ELSE JSNull
        ELSE JSNull

\* DynamicPropertyManager.set: when world.setDynamicProperty throws, the catch
\* returns false and nothing is stored (w.storeThrows says whether it throws
\* during this run of the handler)
set(w, key, value) ==
    IF w.storeThrows THEN w
    ELSE [w EXCEPT !.props[key] = [kind |-> "string",
                                   text |-> JSON_stringify(value)],
                   !.written = @ \cup {key}]

\* DynamicPropertyManager.remove: world.setDynamicProperty(key, null)
remove(w, key) ==
    IF w.storeThrows THEN w
    ELSE [w EXCEPT !.props[key] = Undefined, !.removed = @ \cup {key}]

sendMessage(w, message) == [w EXCEPT !.msgs = Append(@, message)]

-----------------------------------------------------------------------------
(* BlockManager *)

createBlockInfo(block, settings) ==
    [location |-> block.location,
     time |-> parseInt(settings.genTime),
     genTime |-> parseInt(settings.genTime),
     blockType |-> settings.blockType,
     midBlockType |-> settings.midBlockType,
     dimensionId |-> block.dimension.id,
     configured |-> FALSE,
     breaked |-> FALSE]

\* BlockManager.setBlock: dimension.setBlockType throws, and the catch swallows it,
\* when the location or the block type is not one the world knows
setBlock(w, dimension, location, blockType) ==
    IF location \in WorldCells /\ blockType \in BlockTypes
    THEN [w EXCEPT !.blocks[location] = blockType,
                   !.placed = @ \cup {[dimension |-> dimension.id,
                                       location |-> location,
                                       blockType |-> blockType]}]
    ELSE w

\* isValidBlockInfo not looking at blockType
isValidBlockInfo_BlockTypeUnchecked(blockInfo) ==
    /\ blockInfo # JSNull
    /\ blockInfo.location # UndefinedLoc
    /\ TruthyStr(blockInfo.midBlockType)

isValidBlockInfo(blockInfo) ==
    /\ blockInfo # JSNull
    /\ blockInfo.location # UndefinedLoc
    /\ TruthyStr(blockInfo.blockType)
    /\ TruthyStr(blockInfo.midBlockType)

-----------------------------------------------------------------------------
(* Messages sent to players (the texts of main.js, named)                     *)

MSG_FORM_SHOW_FAILED == "failed to show the form"       \* line 215
MSG_FORM_INCOMPLETE == "form input incomplete"          \* line 232
MSG_FILL_ALL_FIELDS == "fill in all fields"             \* line 239
MSG_SETTING_SAVED == "setting saved"                    \* line 246
MSG_ALREADY_SET == "block is already set"               \* line 268
MSG_SETTING_NOT_FOUND == "setting not found"            \* line 362
MSG_BLOCK_SET == "block set"                            \* line 368
MSG_REGENERATING == "regenerating block cannot be broken" \* line 410
MSG_SETTING_REMOVED == "creative mode removed setting"  \* line 437

-----------------------------------------------------------------------------
(* The handlers, as functions of the working state *)

NewW(props, world) ==
    [props |-> props, blocks |-> world, msgs |-> <<>>, placed |-> {},
     written |-> {}, removed |-> {}, cancel |-> FALSE, thrown |-> FALSE,
     storeThrows |-> FALSE, updated |-> {}]

\* the same while world.setDynamicProperty throws
StoreThrowsW(props, world) == [NewW(props, world) EXCEPT !.storeThrows = TRUE]

\* formData.formValues is <<>> when the form was closed without values
handleFormSubmission(w, formData) ==
    IF Len(formData.formValues) < 3
    THEN sendMessage(w, MSG_FORM_INCOMPLETE)
    ELSE LET genTime == formData.formValues[1]
             blockType == formData.formValues[2]
             midBlockType == formData.formValues[3]
         IN  IF genTime = <<>> \/ blockType = "" \/ midBlockType = ""
             THEN sendMessage(w, MSG_FILL_ALL_FIELDS)
             ELSE LET saved == set(w, SETTING_KEY,
                                   [genTime |-> genTime, blockType |-> blockType,
                                    midBlockType |-> midBlockType])
                  IN  IF w.storeThrows THEN saved
                      ELSE sendMessage(saved, MSG_SETTING_SAVED)

\* settingBlock warning about an existing record and overwriting it
settingBlock_WarnAndOverwrite(w, block, settings) ==
    LET blockKey == getBlockKey(getLocationId(block.location.x, block.location.y,
                                              block.location.z))
        warned == IF get(w.props, blockKey) # JSNull
                  THEN sendMessage(w, MSG_ALREADY_SET) ELSE w
    IN  set(warned, blockKey, createBlockInfo(block, settings))

settingBlock(w, block, settings) ==
    LET locationId == getLocationId(block.location.x, block.location.y,
                                    block.location.z)
        blockKey == getBlockKey(locationId)
        existingBlockInfo == get(w.props, blockKey)
    IN  IF existingBlockInfo # JSNull
        THEN sendMessage(w, MSG_ALREADY_SET)
        ELSE set(w, blockKey, createBlockInfo(block, settings))

\* beforeEvents.playerInteractWithBlock, past its event filter (first event,
\* trigger item, block not air, player not sneaking)
onPlayerInteractWithBlock(w, block) ==
    LET settings == get(w.props, SETTING_KEY)
    IN  IF settings = JSNull
        THEN sendMessage(w, MSG_SETTING_NOT_FOUND)
        ELSE sendMessage(settingBlock(w, block, settings), MSG_BLOCK_SET)

\* handleBlockUpdate restoring in the scan whose decrement reaches 0
handleBlockUpdate_RestoreOnLastDecrement(w, dataId, blockInfo) ==
    LET dimension == getDimension(blockInfo.dimensionId)
        counted == [blockInfo EXCEPT !.time = Decrement(@)]
    IN  IF ~blockInfo.configured
        THEN set(setBlock(w, dimension, blockInfo.location, blockInfo.blockType),
                 dataId, [blockInfo EXCEPT !.configured = TRUE])
        ELSE IF blockInfo.breaked
        THEN IF LessEqZero(counted.time)
             THEN set(setBlock(w, dimension, blockInfo.location, blockInfo.blockType),
                      dataId,
                      [blockInfo EXCEPT !.breaked = FALSE, !.time = blockInfo.genTime])
             ELSE set(w, dataId, counted)
        ELSE w

\* handleBlockUpdate forgetting to record the first-time setup
handleBlockUpdate_SetupNotRecorded(w, dataId, blockInfo) ==
    LET dimension == getDimension(blockInfo.dimensionId)
    IN  IF ~blockInfo.configured
        THEN set(setBlock(w, dimension, blockInfo.location, blockInfo.blockType),
                 dataId, blockInfo)
        ELSE IF blockInfo.breaked
        THEN IF LessEqZero(blockInfo.time)
             THEN set(setBlock(w, dimension, blockInfo.location, blockInfo.blockType),
                      dataId,
                      [blockInfo EXCEPT !.breaked = FALSE, !.time = blockInfo.genTime])
             ELSE set(w, dataId, [blockInfo EXCEPT !.time = Decrement(@)])
        ELSE w

\* handleBlockUpdate dropping the record when it restores the block
handleBlockUpdate_RemoveOnRestore(w, dataId, blockInfo) ==
    LET dimension == getDimension(blockInfo.dimensionId)
    IN  IF ~blockInfo.configured
        THEN set(setBlock(w, dimension, blockInfo.location, blockInfo.blockType),
                 dataId, [blockInfo EXCEPT !.configured = TRUE])
        ELSE IF blockInfo.breaked
        THEN IF LessEqZero(blockInfo.time)
             THEN remove(setBlock(w, dimension, blockInfo.location,
                                  blockInfo.blockType),
                         dataId)
             ELSE set(w, dataId, [blockInfo EXCEPT !.time = Decrement(@)])
        ELSE w

handleBlockUpdate(w, dataId, blockInfo) ==
    IF getDimensionThrows(blockInfo.dimensionId)
    THEN [w EXCEPT !.thrown = TRUE]
    ELSE LET dimension == getDimension(blockInfo.dimensionId)
         IN  IF ~blockInfo.configured
             THEN set(setBlock(w, dimension, blockInfo.location, blockInfo.blockType),
                      dataId, [blockInfo EXCEPT !.configured = TRUE])
             ELSE IF blockInfo.breaked
             THEN IF LessEqZero(blockInfo.time)
                  THEN set(setBlock(w, dimension, blockInfo.location,
                                    blockInfo.blockType),
                           dataId,
                           [blockInfo EXCEPT !.breaked = FALSE,
                                             !.time = blockInfo.genTime])
                  ELSE set(w, dataId, [blockInfo EXCEPT !.time = Decrement(@)])
             ELSE w

\* the body of the system.runInterval callback, from the i-th id on; an
\* exception thrown by handleBlockUpdate ends the callback.  w.updated holds
\* the ids for which handleBlockUpdate has returned.
RECURSIVE scanFrom(_, _, _)
scanFrom(w, dataIds, i) ==
    IF i > Len(dataIds) \/ w.thrown THEN w
    ELSE LET dataId == dataIds[i]
         IN  IF ~startsWithPrefix(dataId) THEN scanFrom(w, dataIds, i + 1)
             ELSE LET blockInfo == get(w.props, dataId)
                  IN  IF blockInfo = JSNull \/ ~isValidBlockInfo(blockInfo)
                      THEN scanFrom(remove(w, dataId), dataIds, i + 1)
                      ELSE LET u == handleBlockUpdate(w, dataId, blockInfo)
                           IN  scanFrom(IF u.thrown THEN u
                                        ELSE [u EXCEPT !.updated = @ \cup {dataId}],
                                        dataIds, i + 1)

\* the break-before handler cancelling whenever the record is breaked
onBeforePlayerBreakBlock_NoTimeCheck(w, block) ==
    LET blockInfo == get(w.props,
                         getBlockKey(getLocationId(block.location.x,
                                                   block.location.y,
                                                   block.location.z)))
    IN  IF blockInfo = JSNull THEN w
        ELSE IF blockInfo.breaked
        THEN sendMessage([w EXCEPT !.cancel = TRUE], MSG_REGENERATING)
        ELSE w

\* beforeEvents.playerBreakBlock
onBeforePlayerBreakBlock(w, block) ==
    LET locationId == getLocationId(block.location.x, block.location.y,
                                    block.location.z)
        blockKey == getBlockKey(locationId)
        blockInfo == get(w.props, blockKey)
    IN  IF blockInfo = JSNull THEN w
        ELSE IF blockInfo.breaked /\ GreaterZero(blockInfo.time)
        THEN sendMessage([w EXCEPT !.cancel = TRUE], MSG_REGENERATING)
        ELSE w

\* the break-after handler without its creative-mode branch
onAfterPlayerBreakBlock_NoCreativeBranch(w, gameMode, block) ==
    LET blockKey == getBlockKey(getLocationId(block.location.x, block.location.y,
                                              block.location.z))
        blockInfo == get(w.props, blockKey)
    IN  IF blockInfo = JSNull THEN w
        ELSE set(setBlock(w, getDimension(blockInfo.dimensionId),
                          blockInfo.location, blockInfo.midBlockType),
                 blockKey,
                 [blockInfo EXCEPT !.breaked = TRUE, !.time = blockInfo.genTime])

\* the break-after handler starting the countdown without resetting time
onAfterPlayerBreakBlock_TimeNotReset(w, gameMode, block) ==
    LET blockKey == getBlockKey(getLocationId(block.location.x, block.location.y,
                                              block.location.z))
        blockInfo == get(w.props, blockKey)
    IN  IF blockInfo = JSNull THEN w
        ELSE IF gameMode = GameMode_creative
        THEN sendMessage(remove(w, blockKey), MSG_SETTING_REMOVED)
        ELSE set(setBlock(w, getDimension(blockInfo.dimensionId),
                          blockInfo.location, blockInfo.midBlockType),
                 blockKey, [blockInfo EXCEPT !.breaked = TRUE])

\* afterEvents.playerBreakBlock
onAfterPlayerBreakBlock(w, gameMode, block) ==
    LET locationId == getLocationId(block.location.x, block.location.y,
                                    block.location.z)
        blockKey == getBlockKey(locationId)
        blockInfo == get(w.props, blockKey)
    IN  IF blockInfo = JSNull THEN w
        ELSE IF gameMode = GameMode_creative
        THEN sendMessage(remove(w, blockKey), MSG_SETTING_REMOVED)
        ELSE IF getDimensionThrows(blockInfo.dimensionId)
        THEN [w EXCEPT !.thrown = TRUE]
        ELSE set(setBlock(w, getDimension(blockInfo.dimensionId),
                          blockInfo.location, blockInfo.midBlockType),
                 blockKey,
                 [blockInfo EXCEPT !.breaked = TRUE, !.time = blockInfo.genTime])

-----------------------------------------------------------------------------
(* Inputs *)

GameModes == {GameMode_survival, GameMode_creative}

\* what a player may type into the genTime field
GenTimeInputs ==
    {<<>>, <<"-", "1">>, toString(0), toString(MaxGenTime)}

\* a closed form, a form with one field left empty, and complete forms
FormInputs ==
    {[formValues |-> <<>>]} \cup
    {[formValues |-> <<g, "minecraft:diamond_ore", "minecraft:cobblestone">>] :
        g \in GenTimeInputs} \cup
    {[formValues |-> <<<<"1">>, "", "minecraft:cobblestone">>],
     [formValues |-> <<<<"1">>, "minecraft:diamond_ore", "">>]}

\* a property value the scan treats as invalid: a text that does not parse, or
\* an object without location, blockType or midBlockType
ForeignObject(l) ==
    createBlockInfo(TheBlock(l),
                    [genTime |-> <<"1">>, blockType |-> "minecraft:diamond_ore",
                     midBlockType |-> "minecraft:cobblestone"])

InvalidValues(l) ==
    {[kind |-> "string", text |-> [valid |-> FALSE]]} \cup
    {[kind |-> "string", text |-> JSON_stringify(o)] :
        o \in {[ForeignObject(l) EXCEPT !.location = UndefinedLoc],
               [ForeignObject(l) EXCEPT !.blockType = UndefinedStr],
               [ForeignObject(l) EXCEPT !.midBlockType = UndefinedStr]}}

NoProperties == [k \in AllKeys |-> Undefined]

\* the dynamic properties found when the script is loaded: none, or one
\* invalid value under a record key
InitialProperties ==
    {NoProperties} \cup
    UNION {{[NoProperties EXCEPT ![getBlockKey(getLocationId(l.x, l.y, l.z))] = v] :
               v \in InvalidValues(l)} : l \in {Vec(0, 0, 0)}}

\* world.getDynamicPropertyIds(): the ids in use, in any order
PropertyIdOrders(props) ==
    LET ids == {k \in AllKeys : props[k] # Undefined}
        n == Cardinality(ids)
    IN  {o \in [1..n -> ids] : \A i, j \in 1..n : o[i] = o[j] => i = j}

-----------------------------------------------------------------------------
(* The observer brokenTicks.  brokenTicks[k] is -1 while nothing is counted,   *)
(* else the number of scans that processed the record of key k since the      *)
(* break-after of a standard player made it breaked, the record being         *)
(* configured then.  Counting stops when the record is restored or deleted.   *)

TickCap == MaxGenTime + 3

ObserveScan(props, props2, updated) ==
    [k \in BlockKeys |->
        LET r == get(props, k)
            r2 == get(props2, k)
        IN  IF r = JSNull \/ r2 = JSNull \/ brokenTicks[k] < 0 THEN 0 - 1
            ELSE IF k \notin updated THEN brokenTicks[k]
            ELSE IF r.breaked /\ ~r2.breaked THEN 0 - 1
            ELSE IF brokenTicks[k] < TickCap THEN brokenTicks[k] + 1
            ELSE TickCap]

\* the break-after handler on the cell of key: counting starts when the
\* handler wrote the record breaked, the record being configured, and stops
\* when it removed the record; a handler whose write or removal failed leaves
\* the count as it was
ObserveBreak(props, props2, key, written, removed) ==
    [k \in BlockKeys |->
        LET r == get(props, k)
            r2 == get(props2, k)
        IN  IF k # key \/ r = JSNull THEN brokenTicks[k]
            ELSE IF k \in removed THEN 0 - 1
            ELSE IF k \notin written THEN brokenTicks[k]
            ELSE IF r2 # JSNull /\ r2.breaked /\ r.configured THEN 0
            ELSE 0 - 1]

-----------------------------------------------------------------------------
(* Actions: one per event the script subscribes to *)

Effects(w) ==
    [cancel |-> w.cancel, msgs |-> w.msgs, placed |-> w.placed,
     written |-> w.written, removed |-> w.removed]

\* afterEvents.itemUse while sneaking with the trigger item: the handler calls
\* showSettingFormModal, which builds the form and calls form.show(player),
\* and returns with the promise pending; nothing is sent or stored.  A player
\* with the form on screen uses no item.
ItemUse ==
    /\ ~formShown
    /\ formShown' = TRUE
    /\ out' = Effects(NewW(dynamicProperties, blocks))
    /\ UNCHANGED <<dynamicProperties, blocks, pending, brokenTicks, lostWrite,
                   codecVars>>

\* the .then callback of form.show: the promise resolves with the response
FormResponse(formData) ==
    /\ formShown
    /\ formShown' = FALSE
    /\ LET w == handleFormSubmission(NewW(dynamicProperties, blocks), formData)
       IN  /\ dynamicProperties' = w.props
           /\ out' = Effects(w)
    /\ UNCHANGED <<blocks, pending, brokenTicks, lostWrite, codecVars>>

\* the .catch callback of form.show: the promise is rejected
FormRejected ==
    /\ formShown
    /\ formShown' = FALSE
    /\ out' = Effects(sendMessage(NewW(dynamicProperties, blocks),
                                  MSG_FORM_SHOW_FAILED))
    /\ UNCHANGED <<dynamicProperties, blocks, pending, brokenTicks, lostWrite,
                   codecVars>>

\* beforeEvents.playerInteractWithBlock with the trigger item on a block
\* that is not air, the player not sneaking
PlayerInteractWithBlock(location) ==
    /\ blocks[location] # AIR
    /\ LET w == onPlayerInteractWithBlock(NewW(dynamicProperties, blocks),
                                          TheBlock(location))
       IN  /\ dynamicProperties' = w.props
           /\ out' = Effects(w)
    /\ UNCHANGED <<blocks, pending, brokenTicks, lostWrite, formShown, codecVars>>

\* the system.runInterval callback
RunInterval(dataIds) ==
    LET w == scanFrom(NewW(dynamicProperties, blocks), dataIds, 1)
    IN  /\ dynamicProperties' = w.props
        /\ blocks' = w.blocks
        /\ out' = Effects(w)
        /\ brokenTicks' = ObserveScan(dynamicProperties, w.props, w.updated)
        /\ UNCHANGED <<pending, lostWrite, formShown, codecVars>>

\* beforeEvents.playerBreakBlock; unless the handler cancels it the host
\* breaks the block and queues the after event.  One break is in flight at a
\* time; the interval callback and the other handlers may run before its
\* after event is delivered.
BeforePlayerBreakBlock(gameMode, location) ==
    /\ pending = {}
    /\ blocks[location] # AIR
    /\ LET w == onBeforePlayerBreakBlock(NewW(dynamicProperties, blocks),
                                         TheBlock(location))
       IN  /\ dynamicProperties' = w.props
           /\ out' = Effects(w)
           /\ pending' = IF w.cancel THEN {}
                         ELSE {[player |-> gameMode, location |-> location]}
           /\ blocks' = IF w.cancel THEN w.blocks
                        ELSE [w.blocks EXCEPT ![location] = AIR]
    /\ UNCHANGED <<brokenTicks, lostWrite, formShown, codecVars>>

\* afterEvents.playerBreakBlock for a break the host has committed
AfterPlayerBreakBlock(ev) ==
    /\ ev \in pending
    /\ LET w == onAfterPlayerBreakBlock(NewW(dynamicProperties, blocks),
                                        ev.player, TheBlock(ev.location))
           key == getBlockKey(getLocationId(ev.location.x, ev.location.y,
                                            ev.location.z))
       IN  /\ dynamicProperties' = w.props
           /\ blocks' = w.blocks
           /\ out' = Effects(w)
           /\ brokenTicks' = ObserveBreak(dynamicProperties, w.props, key,
                                         w.written, w.removed)
    /\ pending' = pending \ {ev}
    /\ UNCHANGED <<lostWrite, formShown, codecVars>>

CodecIdle ==
    /\ coordA = Vec(0, 0, 0)
    /\ coordB = Vec(0, 0, 0)
    /\ idA = <<>>
    /\ idB = <<>>

Init ==
    /\ dynamicProperties \in InitialProperties
    /\ blocks = [l \in WorldCells |-> STONE]
    /\ pending = {}
    /\ out = Effects(NewW(dynamicProperties, blocks))
    /\ brokenTicks = [k \in BlockKeys |-> 0 - 1]
    /\ lostWrite = {}
    /\ formShown = FALSE
    /\ CodecIdle

Next ==
    \/ ItemUse
    \/ \E formData \in FormInputs : FormResponse(formData)
    \/ FormRejected
    \/ \E location \in Locations : PlayerInteractWithBlock(location)
    \/ \E dataIds \in PropertyIdOrders(dynamicProperties) : RunInterval(dataIds)
    \/ \E gameMode \in GameModes, location \in Locations :
           BeforePlayerBreakBlock(gameMode, location)
    \/ \E ev \in pending : AfterPlayerBreakBlock(ev)

Spec == Init /\ [][Next]_vars

-----------------------------------------------------------------------------
(* The identifier codec on its own: two coordinates are drawn, then encoded   *)

CodecValues == {0 - COORDINATE_OFFSET, 0 - 1, 0, 1, 100000, COORDINATE_OFFSET}

CodecCoordinates ==
    {Vec(x, y, z) : x \in CodecValues, y \in {0, 1}, z \in {0, 100000}}

InitCodec ==
    /\ dynamicProperties = NoProperties
    /\ blocks = [l \in WorldCells |-> STONE]
    /\ pending = {}
    /\ out = Effects(NewW(dynamicProperties, blocks))
    /\ brokenTicks = [k \in BlockKeys |-> 0 - 1]
    /\ lostWrite = {}
    /\ formShown = FALSE
    /\ coordA \in CodecCoordinates
    /\ coordB \in CodecCoordinates
    /\ idA = <<>>
    /\ idB = <<>>

Encode ==
    /\ idA = <<>>
    /\ idA' = getLocationId(coordA.x, coordA.y, coordA.z)
    /\ idB' = getLocationId(coordB.x, coordB.y, coordB.z)
    /\ UNCHANGED <<dynamicProperties, blocks, pending, out, brokenTicks,
                   lostWrite, formShown, coordA, coordB>>

NextCodec == Encode

SpecCodec == InitCodec /\ [][NextCodec]_vars

-----------------------------------------------------------------------------
(* The script under the host's scheduling: the interval callback runs every   *)
(* tick (system.runInterval with interval 1), so a tick that can change the   *)
(* state is not put off for ever                                              *)

Tick == \E dataIds \in PropertyIdOrders(dynamicProperties) : RunInterval(dataIds)

DeliverAfterEvent == \E ev \in pending : AfterPlayerBreakBlock(ev)

\* the form filled in with a positive genTime
LiveForms ==
    {[formValues |-> <<toString(n), "minecraft:diamond_ore",
                       "minecraft:cobblestone">>] : n \in 1..(MaxGenTime + 1)}

\* the cell the players of this specification arm and break
LiveCells == {Vec(0, 0, 0)}

InitLive ==
    /\ dynamicProperties = NoProperties
    /\ blocks = [l \in WorldCells |-> STONE]
    /\ pending = {}
    /\ out = Effects(NewW(dynamicProperties, blocks))
    /\ brokenTicks = [k \in BlockKeys |-> 0 - 1]
    /\ lostWrite = {}
    /\ formShown = FALSE
    /\ CodecIdle

NextLive ==
    \/ ItemUse
    \/ \E formData \in LiveForms : FormResponse(formData)
    \/ FormRejected
    \/ \E location \in LiveCells : PlayerInteractWithBlock(location)
    \/ Tick
    \/ \E gameMode \in GameModes, location \in LiveCells :
           BeforePlayerBreakBlock(gameMode, location)
    \/ DeliverAfterEvent

SpecLive == InitLive /\ [][NextLive]_vars /\ WF_vars(Tick)

-----------------------------------------------------------------------------
(* The script over a store that fails for a while: world.setDynamicProperty   *)
(* throws during some runs of the interval callback and of the break-after    *)
(* handler.  lostWrite records the keys of the cells where such a run placed  *)
(* a block; from then on the store works and only the interval callback runs. *)

PlacedKeys(w) ==
    {getBlockKey(getLocationId(p.location.x, p.location.y, p.location.z)) :
        p \in w.placed}

\* the system.runInterval callback while world.setDynamicProperty throws
RunIntervalStoreThrows(dataIds) ==
    LET w == scanFrom(StoreThrowsW(dynamicProperties, blocks), dataIds, 1)
    IN  /\ lostWrite = {}
        /\ dynamicProperties' = w.props
        /\ blocks' = w.blocks
        /\ out' = Effects(w)
        /\ brokenTicks' = ObserveScan(dynamicProperties, w.props, w.updated)
        /\ lostWrite' = PlacedKeys(w)
        /\ UNCHANGED <<pending, formShown, codecVars>>

\* afterEvents.playerBreakBlock while world.setDynamicProperty throws
AfterPlayerBreakBlockStoreThrows(ev) ==
    /\ lostWrite = {}
    /\ ev \in pending
    /\ LET w == onAfterPlayerBreakBlock(StoreThrowsW(dynamicProperties, blocks),
                                        ev.player, TheBlock(ev.location))
           key == getBlockKey(getLocationId(ev.location.x, ev.location.y,
                                            ev.location.z))
       IN  /\ dynamicProperties' = w.props
           /\ blocks' = w.blocks
           /\ out' = Effects(w)
           /\ brokenTicks' = ObserveBreak(dynamicProperties, w.props, key,
                                         w.written, w.removed)
           /\ lostWrite' = PlacedKeys(w)
    /\ pending' = pending \ {ev}
    /\ UNCHANGED <<formShown, codecVars>>

NextTransient ==
    \/ lostWrite = {} /\ ItemUse
    \/ lostWrite = {} /\ \E formData \in LiveForms : FormResponse(formData)
    \/ lostWrite = {} /\ FormRejected
    \/ lostWrite = {} /\ \E location \in LiveCells : PlayerInteractWithBlock(location)
    \/ Tick
    \/ lostWrite = {} /\ \E gameMode \in GameModes, location \in LiveCells :
                             BeforePlayerBreakBlock(gameMode, location)
    \/ lostWrite = {} /\ DeliverAfterEvent
    \/ \E dataIds \in PropertyIdOrders(dynamicProperties) :
           RunIntervalStoreThrows(dataIds)
    \/ \E ev \in pending : AfterPlayerBreakBlockStoreThrows(ev)

SpecTransient == InitLive /\ [][NextTransient]_vars /\ WF_vars(Tick)

-----------------------------------------------------------------------------
(* The script with players arming and breaking two cells 100000 blocks apart *)

CollidingCells == {Vec(0, 0, 0), FarCell}

NextCollide ==
    \/ ItemUse
    \/ \E formData \in LiveForms : FormResponse(formData)
    \/ FormRejected
    \/ \E location \in CollidingCells : PlayerInteractWithBlock(location)
    \/ Tick
    \/ \E gameMode \in GameModes, location \in CollidingCells :
           BeforePlayerBreakBlock(gameMode, location)
    \/ DeliverAfterEvent

SpecCollide == InitLive /\ [][NextCollide]_vars

-----------------------------------------------------------------------------
(* The script loaded over a store that holds a stale record: a record with    *)
(* location, blockType and midBlockType, so that isValidBlockInfo accepts it, *)
(* whose dimensionId is missing or names a dimension the world does not have  *)

UnknownDimensionIds == {UndefinedStr, "addon:removed_dimension"}

StaleRecords(l) ==
    {[ForeignObject(l) EXCEPT !.dimensionId = d, !.configured = c] :
        d \in UnknownDimensionIds, c \in BOOLEAN}

StaleProperties ==
    UNION {{[NoProperties EXCEPT ![getBlockKey(getLocationId(l.x, l.y, l.z))] =
                [kind |-> "string", text |-> JSON_stringify(o)]] :
               o \in StaleRecords(l)} : l \in {Vec(0, 0, 0)}}

InitStale ==
    /\ dynamicProperties \in StaleProperties
    /\ blocks = [l \in WorldCells |-> STONE]
    /\ pending = {}
    /\ out = Effects(NewW(dynamicProperties, blocks))
    /\ brokenTicks = [k \in BlockKeys |-> 0 - 1]
    /\ lostWrite = {}
    /\ formShown = FALSE
    /\ CodecIdle

SpecStale == InitStale /\ [][Next]_vars

-----------------------------------------------------------------------------
(* Vocabulary of the properties *)

KeyOf(location) == getBlockKey(getLocationId(location.x, location.y, location.z))

\* the object stored under key k, JSNull when there is none or it does not parse
RecordAt(k) == get(dynamicProperties, k)
RecordAfter(k) == get(dynamicProperties', k)

\* a persisted record: an object with location, blockType and midBlockType
IsRecord(r) ==
    /\ r # JSNull
    /\ r.location # UndefinedLoc
    /\ r.blockType \notin {UndefinedStr, ""}
    /\ r.midBlockType \notin {UndefinedStr, ""}

Negative(n) == n.t = "num" /\ n.v < 0
Positive(n) == n.t = "num" /\ n.v > 0

Sent(effects, message) ==
    \E i \in DOMAIN effects.msgs : effects.msgs[i] = message

Placement(r, blockType) ==
    [dimension |-> r.dimensionId, location |-> r.location, blockType |-> blockType]

\* the step is a run of the system.runInterval callback (the other handlers
\* send a message or change pending)
ScanStep ==
    /\ pending' = pending
    /\ out'.msgs = <<>>
    /\ \E dataIds \in PropertyIdOrders(dynamicProperties) : RunInterval(dataIds)

-----------------------------------------------------------------------------
(* C1 *)

\* C1: in every reachable state every persisted record that is broken
\* (breaked) is initialized (configured).
C1_BrokenImpliesInitialized ==
    \A k \in BlockKeys :
        IsRecord(RecordAt(k)) => (RecordAt(k).breaked => RecordAt(k).configured)

-----------------------------------------------------------------------------
(* C2 *)

\* C2, as claimed: a record broken by a standard player while initialized, with
\* generationTicks = N >= 1, is idle again after N scans; so it never is still
\* being counted down when N scans have processed it.
C2_RestoredByNthTick ==
    \A k \in BlockKeys :
        (IsRecord(RecordAt(k)) /\ Positive(RecordAt(k).genTime)
            /\ brokenTicks[k] >= 0)
        => brokenTicks[k] < RecordAt(k).genTime.v

\* while a record is counted, and at the step that restores it
C2_CountdownState ==
    \A k \in BlockKeys :
        LET r == RecordAt(k)
        IN  (IsRecord(r) /\ r.genTime.t = "num" /\ r.genTime.v >= 0
                /\ brokenTicks[k] >= 0)
            => /\ r.breaked
               /\ brokenTicks[k] <= r.genTime.v
               /\ r.time = Num(r.genTime.v - brokenTicks[k])

C2_RestoreStep ==
    \A k \in BlockKeys :
        LET r == RecordAt(k)
            r2 == RecordAfter(k)
        IN  (IsRecord(r) /\ r.genTime.t = "num" /\ r.genTime.v >= 0
                /\ brokenTicks[k] >= 0 /\ r2 # JSNull /\ ~r2.breaked)
            => /\ brokenTicks[k] = r.genTime.v
               /\ r2 = [r EXCEPT !.breaked = FALSE, !.time = r.genTime]
               /\ Placement(r, r.blockType) \in out'.placed

\* C2, amended: with generationTicks = N >= 0, the j-th scan after the break
\* (j <= N) leaves the record broken with remainingTicks = N - j, and the scan
\* that restores it (breaked = false, remainingTicks = N, original block
\* placed, all in one scan) is scan number N + 1.
C2_RestoredByTickNPlusOne == [](C2_CountdownState) /\ [][C2_RestoreStep]_vars

\* N scans after the break the record is still broken, with remainingTicks = 0
C2_Witness ==
    \E k \in BlockKeys :
        /\ IsRecord(RecordAt(k))
        /\ Positive(RecordAt(k).genTime)
        /\ brokenTicks[k] = RecordAt(k).genTime.v
        /\ RecordAt(k).breaked
        /\ RecordAt(k).time = Num(0)

-----------------------------------------------------------------------------
(* C3 *)

\* C3: remainingTicks (time) of a persisted record is never negative.
C3_RemainingTicksNeverNegative ==
    \A k \in BlockKeys :
        IsRecord(RecordAt(k)) => ~Negative(RecordAt(k).time)

-----------------------------------------------------------------------------
(* C4 *)

\* C4: getLocationId is injective on coordinates with every component in
\* [-30000000, 30000000]: two distinct coordinates get distinct identifiers.
C4_EncodeInjective ==
    (idA # <<>> /\ coordA # coordB) => idA # idB

-----------------------------------------------------------------------------
(* C5 *)

\* what a break-before step does
C5_BeforeBreakStep ==
    \A gameMode \in GameModes, location \in Locations :
        BeforePlayerBreakBlock(gameMode, location)
        => LET r == RecordAt(KeyOf(location))
               regenerating == r # JSNull /\ r.breaked /\ Positive(r.time)
           IN  /\ out'.cancel = regenerating
               /\ (pending' = {}) = regenerating
               /\ dynamicProperties' = dynamicProperties
               /\ out'.written = {}
               /\ out'.removed = {}

\* C5: a break-before on a cell whose record has breaked and time > 0 is
\* cancelled, whoever the player is; on a cell with no record, or with a record
\* not in that state, it is allowed; in both cases no dynamic property changes.
C5_VetoWhileRegenerating == [][C5_BeforeBreakStep]_vars

\* a break-before has just been cancelled
C5_Witness ==
    /\ out.cancel
    /\ pending = {}
    /\ \E k \in BlockKeys :
           IsRecord(RecordAt(k)) /\ RecordAt(k).breaked /\ Positive(RecordAt(k).time)

-----------------------------------------------------------------------------
(* C6 *)

\* what arming does when the key of the cell holds an object
C6_ArmStep ==
    \A location \in Locations :
        (PlayerInteractWithBlock(location) /\ RecordAt(KeyOf(location)) # JSNull)
        => /\ dynamicProperties' = dynamicProperties
           /\ out'.written = {}
           /\ (get(dynamicProperties, SETTING_KEY) # JSNull
                  => Sent(out', MSG_ALREADY_SET))

\* C6: arming a cell whose key already holds a record leaves every dynamic
\* property as it was, and, when a setting exists so that the arming is tried,
\* reports the conflict; whatever the setting is.
C6_ArmNeverOverwrites == [][C6_ArmStep]_vars

\* a conflict has just been reported for a record that is past its setup
C6_Witness ==
    /\ Sent(out, MSG_ALREADY_SET)
    /\ \E k \in BlockKeys : IsRecord(RecordAt(k)) /\ RecordAt(k).configured

-----------------------------------------------------------------------------
(* C7 *)

\* the creative-mode break-after on an idle record, and where a scan places blocks
C7_CreativeBreakStep ==
    \A ev \in pending :
        LET k == KeyOf(ev.location)
        IN  (AfterPlayerBreakBlock(ev) /\ ev.player = GameMode_creative
                /\ RecordAt(k) # JSNull /\ ~RecordAt(k).breaked)
            => /\ dynamicProperties'[k] = Undefined
               /\ k \in out'.removed
               /\ out'.written = {}
               /\ out'.placed = {}
               /\ blocks' = blocks

C7_ScanStep ==
    ScanStep
    => \A p \in out'.placed :
           \E k \in BlockKeys :
               IsRecord(RecordAt(k)) /\ RecordAt(k).location = p.location

\* C7: the break-after of a creative-mode player on a cell whose record is
\* idle (breaked = false) deletes the record and places no block; and a scan
\* places blocks only at the locations of records stored when it starts.
C7_CreativeBreakDeletes == [][C7_CreativeBreakStep /\ C7_ScanStep]_vars

\* a creative-mode break has just deleted the record of a cell
C7_Witness ==
    /\ Sent(out, MSG_SETTING_REMOVED)
    /\ out.placed = {}
    /\ \E k \in out.removed : dynamicProperties[k] = Undefined

-----------------------------------------------------------------------------
(* C8 *)

\* the two steps of a creative-mode break of a cell that has a record
C8_CreativeAttemptStep ==
    /\ \A location \in Locations :
           (BeforePlayerBreakBlock(GameMode_creative, location)
               /\ RecordAt(KeyOf(location)) # JSNull)
           => ~out'.cancel
    /\ \A ev \in pending :
           (AfterPlayerBreakBlock(ev) /\ ev.player = GameMode_creative
               /\ RecordAt(KeyOf(ev.location)) # JSNull)
           => dynamicProperties'[KeyOf(ev.location)] = Undefined

\* C8: a creative-mode player's attempt to break a cell that has a record,
\* whatever the record's state, deletes the record: the break-before does not
\* cancel the attempt and the break-after removes the record.
C8_CreativeBreakAlwaysDeletes == [][C8_CreativeAttemptStep]_vars

-----------------------------------------------------------------------------
(* C9 *)

\* a value under a record key that does not parse or lacks a required field
InvalidStored(value) ==
    /\ value.kind = "string"
    /\ \/ ~value.text.valid
       \/ ~IsRecord(value.text.value)

\* what a scan does with an invalid value
C9_ScanStep ==
    ScanStep
    => \A k \in BlockKeys :
           InvalidStored(dynamicProperties[k])
           => /\ dynamicProperties'[k] = Undefined
              /\ k \in out'.removed
              /\ k \notin out'.written
              /\ \A p \in out'.placed : KeyOf(p.location) # k

\* C9: a scan deletes every invalid value it finds under a record key, and
\* neither writes that key nor places a block at a cell of that key.
C9_InvalidDeletedOnSight == [][C9_ScanStep]_vars

\* a scan has just removed a value, and placed and written nothing
C9_Witness ==
    /\ out.removed # {}
    /\ out.msgs = <<>>
    /\ out.placed = {}
    /\ out.written = {}
    /\ \A k \in out.removed : dynamicProperties[k] = Undefined

-----------------------------------------------------------------------------
(* C10 *)

\* what a scan does with a valid record, by its configured flag
C10_ScanStep ==
    ScanStep
    => \A k \in BlockKeys :
           LET r == RecordAt(k)
               r2 == RecordAfter(k)
           IN  IsRecord(r)
               => /\ ~r.configured
                     => /\ r2 = [r EXCEPT !.configured = TRUE]
                        /\ Placement(r, r.blockType) \in out'.placed
                  /\ r.configured
                     => (Placement(r, r.blockType) \in out'.placed
                            => r.breaked /\ ~r2.breaked)

C10_ConfiguredStays ==
    \A k \in BlockKeys :
        (RecordAt(k) # JSNull /\ RecordAt(k).configured /\ RecordAfter(k) # JSNull)
        => RecordAfter(k).configured

\* C10: the scan that finds a record with configured = false places the
\* original block, sets configured = true and changes nothing else of the
\* record; a scan that finds it configured places the original block only to
\* restore it; and configured never goes back to false while the record
\* stays, so the first-time branch is not taken for it again.
C10_SetupExactlyOnce == [][C10_ScanStep /\ C10_ConfiguredStays]_vars

\* a scan has just placed the original block of a record that is configured
\* and not broken
C10_Witness ==
    \E k \in BlockKeys :
        LET r == RecordAt(k)
        IN  /\ IsRecord(r)
            /\ r.configured
            /\ ~r.breaked
            /\ k \in out.written
            /\ Placement(r, r.blockType) \in out.placed

-----------------------------------------------------------------------------
(* C11 *)

\* C11: the setting stored by the form handler has a genTime that reads as a
\* positive integer, and every record created from it has genTime > 0.
C11_GenerationTicksPositive ==
    /\ LET settings == get(dynamicProperties, SETTING_KEY)
       IN  settings # JSNull => Positive(parseInt(settings.genTime))
    /\ \A k \in BlockKeys :
           IsRecord(RecordAt(k)) => Positive(RecordAt(k).genTime)

-----------------------------------------------------------------------------
(* C12 *)

\* what a scan has done with the value under key k when it got to it: an
\* invalid value is removed; a valid record whose dimension the world has is
\* set up when it is not configured, and stepped (decrement or restore) when it
\* is configured and breaked
C12_Processed(k) ==
    LET r == RecordAt(k)
        r2 == RecordAfter(k)
    IN  IF InvalidStored(dynamicProperties[k])
        THEN dynamicProperties'[k] = Undefined
        ELSE (IsRecord(r) /\ ~getDimensionThrows(r.dimensionId))
             => /\ ~r.configured => r2 = [r EXCEPT !.configured = TRUE]
                /\ (r.configured /\ r.breaked)
                   => \/ r2 = [r EXCEPT !.time = Decrement(@)]
                      \/ r2 = [r EXCEPT !.breaked = FALSE, !.time = r.genTime]

C12_ScanStep ==
    ScanStep => \A k \in BlockKeys : C12_Processed(k)

\* C12: whatever fails while a scan processes one record, every other value
\* under a record key that is stored when the scan starts is processed by
\* that scan.
C12_FailureNeverAbortsScan == [][C12_ScanStep]_vars

-----------------------------------------------------------------------------
(* C13 *)

\* what a scan does with a record that is breaked when the scan starts
C13_ScanStep ==
    ScanStep
    => \A k \in BlockKeys :
           LET r == RecordAt(k)
               r2 == RecordAfter(k)
           IN  (IsRecord(r) /\ r.breaked)
               => \/ r2 = [r EXCEPT !.time = Decrement(@)]
                  \/ r2 = [r EXCEPT !.breaked = FALSE, !.time = r.genTime]

\* C13: a scan gives every record that is breaked when it starts exactly one
\* transition: time decremented by 1 once, or the restore (breaked = false,
\* time = genTime); never none and never two.
C13_OneTransitionPerTick == [][C13_ScanStep]_vars

-----------------------------------------------------------------------------
(* C14 *)

\* the record of key k is breaked, past its setup, with genTime > 0
C14_Broken(k) ==
    LET r == RecordAt(k)
    IN  IsRecord(r) /\ r.breaked /\ r.configured /\ Positive(r.genTime)

\* the record of key k is gone, or idle again with the original block in place
C14_RestoredOrDeleted(k) ==
    LET r == RecordAt(k)
    IN  \/ ~IsRecord(r)
        \/ /\ ~r.breaked
           /\ r.time = r.genTime
           /\ blocks[r.location] = r.blockType

\* C14: with the interval callback running every tick, a record that is
\* breaked is eventually deleted or restored: breaked = false, time = genTime
\* and the original block placed.
C14_CountdownCompletes ==
    \A k \in BlockKeys : C14_Broken(k) ~> C14_RestoredOrDeleted(k)

-----------------------------------------------------------------------------
(* C15 *)

\* what the break-after of a survival player does
C15_StandardBreakStep ==
    \A ev \in pending :
        (ev.player = GameMode_survival /\ AfterPlayerBreakBlock(ev))
        => LET k == KeyOf(ev.location)
               r == RecordAt(k)
           IN  /\ IsRecord(r)
                  => /\ RecordAfter(k) = [r EXCEPT !.breaked = TRUE,
                                                   !.time = r.genTime]
                     /\ out'.written = {k}
                     /\ out'.removed = {}
                     /\ out'.placed = {Placement(r, r.midBlockType)}
                     /\ blocks' = [blocks EXCEPT ![r.location] = r.midBlockType]
                     /\ \A k2 \in AllKeys \ {k} :
                            dynamicProperties'[k2] = dynamicProperties[k2]
               /\ r = JSNull
                  => /\ dynamicProperties' = dynamicProperties
                     /\ blocks' = blocks
                     /\ out'.written = {}
                     /\ out'.removed = {}
                     /\ out'.placed = {}

\* C15: the break-after of a survival player on a cell whose key holds a
\* record places midBlockType at the record's location, stores the record
\* with breaked = true and time = genTime and every other field as it was, and
\* touches no other key; on a cell whose key holds nothing it changes nothing.
C15_StandardBreakStartsCountdown == [][C15_StandardBreakStep]_vars

\* a survival break has just made a configured record breaked: the
\* placeholder is placed and time is genTime
C15_Witness ==
    /\ pending = {}
    /\ \E k \in out.written :
           LET r == RecordAt(k)
           IN  /\ k \in BlockKeys
               /\ IsRecord(r)
               /\ r.breaked
               /\ r.configured
               /\ Positive(r.genTime)
               /\ r.time = r.genTime
               /\ brokenTicks[k] = 0
               /\ out.placed = {Placement(r, r.midBlockType)}
               /\ blocks[r.location] = r.midBlockType

-----------------------------------------------------------------------------
(* C16 *)

\* a step after which a record key holds nothing any more
C16_DeletionStep ==
    \A k \in BlockKeys :
        (dynamicProperties[k] # Undefined /\ dynamicProperties'[k] = Undefined)
        => \/ InvalidStored(dynamicProperties[k]) /\ ScanStep
           \/ \E ev \in pending :
                  /\ ev.player = GameMode_creative
                  /\ KeyOf(ev.location) = k
                  /\ AfterPlayerBreakBlock(ev)

\* C16: the value under a record key is deleted only by a scan that finds it
\* invalid or by the break-after of a creative-mode player on its cell; no
\* scan deletes a valid record, and the form handler, arming, break-before and
\* a survival player's break-after delete nothing.
C16_DeletedOnlyByScanOrCreative == [][C16_DeletionStep]_vars

\* a creative-mode break has just deleted the record of one cell while the
\* record of the other cell, breaked, is still stored
C16_Witness ==
    /\ Sent(out, MSG_SETTING_REMOVED)
    /\ \E k \in out.removed, k2 \in BlockKeys :
           /\ k2 # k
           /\ dynamicProperties[k] = Undefined
           /\ IsRecord(RecordAt(k2))
           /\ RecordAt(k2).breaked

-----------------------------------------------------------------------------
(* C17 *)

\* the record of key k and the block at its cell agree: idle with the
\* original block, or breaked with the placeholder
C17_Agree(k) ==
    LET r == RecordAt(k)
    IN  IF ~IsRecord(r) THEN FALSE
        ELSE \/ r.configured /\ ~r.breaked /\ blocks[r.location] = r.blockType
             \/ r.breaked /\ blocks[r.location] = r.midBlockType

\* C17: when a write has failed in a run that had placed a block, and from
\* then on the store works and only the interval callback runs, the record
\* and the block at its cell eventually agree again.
C17_SelfHealing ==
    \A k \in BlockKeys : (k \in lostWrite) ~> C17_Agree(k)

-----------------------------------------------------------------------------
(* C18 *)

\* the record of key k is breaked and not yet restored (past its setup, with
\* genTime > 0)
C18_Regenerating(k) ==
    LET r == RecordAt(k)
    IN  IsRecord(r) /\ r.breaked /\ r.configured /\ Positive(r.genTime)

C18_ProtectedStep ==
    /\ \A gameMode \in GameModes, location \in Locations :
           (C18_Regenerating(KeyOf(location))
               /\ BeforePlayerBreakBlock(gameMode, location))
           => out'.cancel
    /\ \A ev \in pending :
           (ev.player = GameMode_survival /\ C18_Regenerating(KeyOf(ev.location))
               /\ AfterPlayerBreakBlock(ev))
           => RecordAfter(KeyOf(ev.location)).time = RecordAt(KeyOf(ev.location)).time

\* C18: from the break that makes a record breaked until the scan that
\* restores it, every break-before on its cell is cancelled, and no break-after
\* sets time of the breaked record back to genTime.
C18_PlaceholderProtected == [][C18_ProtectedStep]_vars

-----------------------------------------------------------------------------
(* C19 *)

\* C19: the block the script placed last at the cell of a record is the
\* placeholder while the record is breaked and the original block while it is
\* configured and not breaked; so the cell of a breaked record never shows the
\* original block, nor the cell of an idle configured record the placeholder
\* (the two types differ, and only the script places them).
C19_RecordAndBlockAgree ==
    \A k \in BlockKeys :
        LET r == RecordAt(k)
        IN  IsRecord(r)
            => /\ r.breaked => blocks[r.location] # r.blockType
               /\ (r.configured /\ ~r.breaked)
                  => blocks[r.location] # r.midBlockType

-----------------------------------------------------------------------------
(* C20 *)

\* what an event on a cell does when the key of the cell holds the record of
\* another cell
C20_IsolatedStep ==
    \A location \in WorldCells :
        LET k == KeyOf(location)
            r == RecordAt(k)
        IN  (IsRecord(r) /\ r.location # location)
            => /\ PlayerInteractWithBlock(location)
                  => ~Sent(out', MSG_ALREADY_SET)
               /\ \A gameMode \in GameModes :
                      BeforePlayerBreakBlock(gameMode, location) => ~out'.cancel
               /\ \A ev \in pending :
                      (ev.location = location /\ AfterPlayerBreakBlock(ev))
                      => /\ dynamicProperties'[k] = dynamicProperties[k]
                         /\ blocks'[r.location] = blocks[r.location]

\* C20: arming, break-before and break-after on a cell read and change only a
\* record whose location is that cell: a record armed at another cell is not
\* changed or deleted by them, is no reason to refuse the arming and is no
\* reason to cancel the break.
C20_CellIsolation == [][C20_IsolatedStep]_vars

=============================================================================
